---------------------------- MODULE Spec2Model ----------------------------
(***************************************************************************)
(* RouteOptimizer of src/application/recycling_route_optimizer.py:         *)
(* nearest-neighbour tour construction, 2-opt improvement, depot selection *)
(* and the per-day planning loop of optimize_weekly_routes.                *)
(*                                                                         *)
(* Python lists are sequences; a Python position p is position p+1 here.   *)
(* Location indices are the Python ones, 0..n-1.  Distances are integers:  *)
(* the algorithms only add and compare them.                               *)
(***************************************************************************)
EXTENDS Integers, Sequences, FiniteSets, TLC

\* ---------------------------------------------------------------- bounds
MaxN == 4          \* locations of a symmetric distance matrix (depot included)
MaxAsymN == 3      \* locations of a distance matrix that need not be symmetric
MaxBudget == 2     \* largest max_iterations a caller passes

VARIABLES
    pc,              \* position of the caller: start, nn_loop, nn_done, two_opt, done, error
    distance_matrix, \* the matrix both algorithms read
    start_idx,       \* nearest_neighbor_tsp's start_idx
    unvisited,       \* nearest_neighbor_tsp's unvisited
    current,         \* nearest_neighbor_tsp's current
    route,           \* the route under construction, then two_opt_improvement's route
    route_in,        \* the route argument as two_opt_improvement received it
    max_iterations,  \* two_opt_improvement's max_iterations
    iteration,       \* passes of two_opt_improvement's for loop that went on to the next
    best_route,      \* two_opt_improvement's best_route
    best_distance,   \* two_opt_improvement's best_distance
    ppc,             \* position of main(): idle, main, loop, returned
    weekly_data,     \* the collection rows handed to optimize_weekly_routes
    depots,          \* the depot rows
    prices,          \* the price rows
    optimization_level, \* main()'s selectbox value
    days_left,       \* what the for loop over weekly_data['Day'].unique() has yet to visit
    results,         \* optimize_weekly_routes' results dict
    self_fields,     \* the RouteOptimizer's routes, total_distance, total_value
    issued           \* the data-quality warnings the optimizer has handed to its caller

tourVars == <<pc, distance_matrix, start_idx, unvisited, current, route, route_in,
              max_iterations, iteration, best_route, best_distance>>
planVars == <<ppc, weekly_data, depots, prices, optimization_level, days_left,
              results, self_fields, issued>>
vars == <<tourVars, planVars>>

\* ------------------------------------------------------- Python helpers
\* range(a, b)
Range(a, b) == a .. (b - 1)

\* s[a:b] for 0 <= a, b <= len(s)
Slice(s, a, b) == IF b <= a THEN <<>> ELSE [k \in 1 .. (b - a) |-> s[a + k]]

\* s[::-1]
Reversed(s) == [k \in 1 .. Len(s) |-> s[Len(s) + 1 - k]]

\* len(distance_matrix)
MatrixLen(dm) == Cardinality(DOMAIN dm)

\* ------------------------------------------------ calculate_route_distance
RECURSIVE RouteDistanceFrom(_, _, _)
RouteDistanceFrom(r, dm, i) ==
    IF i > Len(r) - 2 THEN 0
    ELSE dm[r[i + 1]][r[i + 2]] + RouteDistanceFrom(r, dm, i + 1)

calculate_route_distance(r, dm) == RouteDistanceFrom(r, dm, 0)

\* ---------------------------------------------------- nearest_neighbor_tsp
\* The element a set of small ints yields first: CPython keeps the ints of
\* set(range(n)) in the slots of their own values, and remove() moves none,
\* so the iteration is ascending.
FirstOf(S) == CHOOSE x \in S : \A y \in S : x <= y

\* Mutant of NearestUnvisited: a later element with an equal key replaces the
\* one kept (<= for <), so ties go to the highest index.
RECURSIVE MinByKeyOrEqual(_, _, _, _)
MinByKeyOrEqual(dm, cur, rest, kept) ==
    IF rest = {} THEN kept
    ELSE LET x == FirstOf(rest) IN
         MinByKeyOrEqual(dm, cur, rest \ {x},
                         IF dm[cur][x] <= dm[cur][kept] THEN x ELSE kept)

NearestUnvisitedLastWins(dm, cur, unv) ==
    MinByKeyOrEqual(dm, cur, unv \ {FirstOf(unv)}, FirstOf(unv))

\* min(iterable, key=...): the first element is kept, and each later one
\* replaces it only when its key is strictly smaller.
RECURSIVE MinByKey(_, _, _, _)
MinByKey(dm, cur, rest, kept) ==
    IF rest = {} THEN kept
    ELSE LET x == FirstOf(rest) IN
         MinByKey(dm, cur, rest \ {x},
                  IF dm[cur][x] < dm[cur][kept] THEN x ELSE kept)

\* min(unvisited, key=lambda x: distance_matrix[current][x])
NearestUnvisited(dm, cur, unv) ==
    MinByKey(dm, cur, unv \ {FirstOf(unv)}, FirstOf(unv))

\* Mutant of TwoOptSwap: the tail is taken from j+2, one element too far.
TwoOptSwapDropsOne(r, i, j) ==
    Slice(r, 0, i) \o Reversed(Slice(r, i, j + 1)) \o Slice(r, j + 2, Len(r))

\* ----------------------------------------------------- two_opt_improvement
\* new_route = route[:i] + route[i:j+1][::-1] + route[j+1:]
TwoOptSwap(r, i, j) ==
    Slice(r, 0, i) \o Reversed(Slice(r, i, j + 1)) \o Slice(r, j + 1, Len(r))

NoPair == <<0, 0>>

\* Mutant of ScanFrom: the comparison is turned round, new_distance > best_distance.
RECURSIVE ScanFromWorse(_, _, _, _, _)
ScanFromWorse(r, dm, best, i, j) ==
    IF i \notin Range(1, Len(r) - 2) THEN <<0, 0>>
    ELSE IF j \notin Range(i + 1, Len(r) - 1) THEN ScanFromWorse(r, dm, best, i + 1, i + 2)
    ELSE IF calculate_route_distance(TwoOptSwap(r, i, j), dm) > best THEN <<i, j>>
    ELSE ScanFromWorse(r, dm, best, i, j + 1)

\* The nested scan, for i in range(1, len-2): for j in range(i+1, len-1),
\* from (i, j) on: the first pair whose new_distance < best_distance, or
\* NoPair when both loops run out.
RECURSIVE ScanFrom(_, _, _, _, _)
ScanFrom(r, dm, best, i, j) ==
    IF i \notin Range(1, Len(r) - 2) THEN NoPair
    ELSE IF j \notin Range(i + 1, Len(r) - 1) THEN ScanFrom(r, dm, best, i + 1, i + 2)
    ELSE IF calculate_route_distance(TwoOptSwap(r, i, j), dm) < best THEN <<i, j>>
    ELSE ScanFrom(r, dm, best, i, j + 1)

\* Mutant of FirstImproving: best improvement, the pair with the shortest
\* new route (the first such pair), instead of the first improving pair.
BestImproving(r, dm, best) ==
    LET pairs == {p \in (1 .. (Len(r) - 2)) \X (1 .. (Len(r) - 2)) :
                     /\ p[1] < p[2]
                     /\ calculate_route_distance(TwoOptSwap(r, p[1], p[2]), dm) < best}
        len(p) == calculate_route_distance(TwoOptSwap(r, p[1], p[2]), dm)
    IN IF pairs = {} THEN NoPair
       ELSE CHOOSE p \in pairs :
               \A q \in pairs :
                   \/ len(p) < len(q)
                   \/ len(p) = len(q) /\ (p[1] < q[1] \/ (p[1] = q[1] /\ p[2] <= q[2]))

FirstImproving(r, dm, best) == ScanFrom(r, dm, best, 1, 2)

\* ------------------------------------------------------------ the inputs
Indices(n) == 0 .. (n - 1)
\* The distances between two different locations.
Distances == {1, 2}
OffDiagonal(n) == {p \in Indices(n) \X Indices(n) : p[1] # p[2]}
AboveDiagonal(n) == {p \in Indices(n) \X Indices(n) : p[1] < p[2]}
\* A matrix with a zero diagonal, as create_distance_matrix leaves it.
MkMatrix(n, f) ==
    [i \in Indices(n) |-> [j \in Indices(n) |-> IF i = j THEN 0 ELSE f[<<i, j>>]]]
MkSymmetric(n, f) ==
    [i \in Indices(n) |->
        [j \in Indices(n) |->
            IF i = j THEN 0 ELSE IF i < j THEN f[<<i, j>>] ELSE f[<<j, i>>]]]
\* Symmetric matrices, as the haversine distance gives them, over up to MaxN
\* locations, and arbitrary ones over up to MaxAsymN.
SymmetricMatrices ==
    UNION {{MkSymmetric(n, f) : f \in [AboveDiagonal(n) -> Distances]} : n \in 0 .. MaxN}
ArbitraryMatrices ==
    UNION {{MkMatrix(n, f) : f \in [OffDiagonal(n) -> Distances]} : n \in 0 .. MaxAsymN}

Budgets == {0 - 1} \cup (0 .. MaxBudget)

\* The closed tours over n locations that start and end at index 0.
ClosedTours(n) ==
    {t \in [1 .. (n + 1) -> Indices(n)] :
        /\ t[1] = 0
        /\ t[n + 1] = 0
        /\ \A k \in 1 .. (n - 1) : \E p \in 2 .. n : t[p] = k}

\* The planner is not running while the tour algorithms are exercised alone.
PlanIdle ==
    /\ ppc = "idle"
    /\ weekly_data = <<>>
    /\ depots = <<>>
    /\ prices = <<>>
    /\ optimization_level = "Advanced (2-Opt)"
    /\ days_left = <<>>
    /\ results = <<>>
    /\ self_fields = [routes |-> <<>>, total_distance |-> 0, total_value |-> 0]
    /\ issued = {}

Init ==
    /\ pc = "start"
    /\ distance_matrix \in SymmetricMatrices \cup ArbitraryMatrices
    /\ start_idx = 0
    /\ unvisited = {}
    /\ current = 0
    /\ route = <<>>
    /\ route_in = <<>>
    /\ max_iterations = 0
    /\ iteration = 0
    /\ best_route = <<>>
    /\ best_distance = 0
    /\ PlanIdle

\* ------------------------------------------- nearest_neighbor_tsp, by step
\* Lines 101-105: unvisited.remove(current) raises KeyError when current is
\* not in the set.
NNStart ==
    /\ pc = "start"
    /\ UNCHANGED planVars
    /\ LET n == MatrixLen(distance_matrix) IN
       /\ current' = start_idx
       /\ route' = <<start_idx>>
       /\ IF start_idx \in Indices(n)
          THEN /\ unvisited' = Indices(n) \ {start_idx}
               /\ pc' = "nn_loop"
          ELSE /\ unvisited' = Indices(n)
               /\ pc' = "error"
    /\ UNCHANGED <<distance_matrix, start_idx, route_in, max_iterations,
                   iteration, best_route, best_distance>>

\* Lines 107-111: one pass of the while loop.
NNStep ==
    /\ pc = "nn_loop"
    /\ UNCHANGED planVars
    /\ unvisited # {}
    /\ LET nearest == NearestUnvisited(distance_matrix, current, unvisited) IN
       /\ route' = Append(route, nearest)
       /\ unvisited' = unvisited \ {nearest}
       /\ current' = nearest
    /\ UNCHANGED <<pc, distance_matrix, start_idx, route_in, max_iterations,
                   iteration, best_route, best_distance>>

\* Lines 113-114: the loop is over; close the tour and return it.
NNReturn ==
    /\ pc = "nn_loop"
    /\ UNCHANGED planVars
    /\ unvisited = {}
    /\ route' = Append(route, start_idx)
    /\ pc' = "nn_done"
    /\ UNCHANGED <<distance_matrix, start_idx, unvisited, current, route_in,
                   max_iterations, iteration, best_route, best_distance>>

\* A caller that brings a closed tour of its own to two_opt_improvement.
CallerTour ==
    /\ pc = "start"
    /\ UNCHANGED planVars
    /\ MatrixLen(distance_matrix) >= 1
    /\ \E t \in ClosedTours(MatrixLen(distance_matrix)) : route' = t
    /\ pc' = "nn_done"
    /\ UNCHANGED <<distance_matrix, start_idx, unvisited, current, route_in,
                   max_iterations, iteration, best_route, best_distance>>

\* -------------------------------------------- two_opt_improvement, by step
\* Lines 116-123: the call and the two assignments before the loop.
TwoOptCall ==
    /\ pc = "nn_done"
    /\ UNCHANGED planVars
    /\ \E b \in Budgets : max_iterations' = b
    /\ route_in' = route
    /\ best_route' = route
    /\ best_distance' = calculate_route_distance(route, distance_matrix)
    /\ iteration' = 0
    /\ pc' = "two_opt"
    /\ UNCHANGED <<distance_matrix, start_idx, unvisited, current, route>>

\* Lines 125-145: one pass of the for loop.  An improving pair is taken and
\* the loop goes on; without one the loop breaks.
TwoOptIter ==
    /\ pc = "two_opt"
    /\ UNCHANGED planVars
    /\ iteration \in Range(0, max_iterations)
    /\ LET p == FirstImproving(route, distance_matrix, best_distance) IN
       IF p # NoPair
       THEN LET new_route == TwoOptSwap(route, p[1], p[2]) IN
            /\ best_route' = new_route
            /\ best_distance' = calculate_route_distance(new_route, distance_matrix)
            /\ route' = new_route
            /\ iteration' = iteration + 1
            /\ pc' = "two_opt"
       ELSE /\ pc' = "done"
            /\ UNCHANGED <<best_route, best_distance, route, iteration>>
    /\ UNCHANGED <<distance_matrix, start_idx, unvisited, current, route_in,
                   max_iterations>>

\* Line 147: range(max_iterations) is exhausted (at once when it is empty).
TwoOptReturn ==
    /\ pc = "two_opt"
    /\ UNCHANGED planVars
    /\ iteration \notin Range(0, max_iterations)
    /\ pc' = "done"
    /\ UNCHANGED <<distance_matrix, start_idx, unvisited, current, route,
                   route_in, max_iterations, iteration, best_route, best_distance>>

Next ==
    \/ NNStart
    \/ NNStep
    \/ NNReturn
    \/ CallerTour
    \/ TwoOptCall
    \/ TwoOptIter
    \/ TwoOptReturn

Spec == Init /\ [][Next]_vars


\* ======================================================= the daily planner
MaxRows == 2       \* collection rows of a week
MaxLongRows == 3   \* collection rows of a long week: enough for a tour 2-opt changes
MaxDepots == 2     \* depot rows

\* two_opt_improvement's default max_iterations, the one the planner gets.
DefaultMaxIterations == 1000

\* config.py's OPTIMIZATION_LEVELS, the "iterations" of each level.
OPTIMIZATION_LEVELS ==
    [l \in {"Basic (Nearest Neighbor)", "Advanced (2-Opt)", "Premium (Multi-iteration)"} |->
        CASE l = "Basic (Nearest Neighbor)" -> 0
          [] l = "Advanced (2-Opt)" -> 1000
          [] l = "Premium (Multi-iteration)" -> 5000]

\* calculate_distance for two points on the equator, in units of one degree
\* of arc (R * pi / 180 km): with both latitudes 0, a = sin(dlon/2)^2 and
\* R * c = R * |dlon| in radians.  Every location of the model has latitude 0.
calculate_distance(lat1, lon1, lat2, lon2) ==
    IF lon2 >= lon1 THEN lon2 - lon1 ELSE lon1 - lon2

\* create_distance_matrix: locations is a sequence of <<lat, lon>>.
create_distance_matrix(locations) ==
    LET n == Len(locations) IN
    [i \in Indices(n) |->
        [j \in Indices(n) |->
            IF i # j
            THEN calculate_distance(locations[i + 1][1], locations[i + 1][2],
                                    locations[j + 1][1], locations[j + 1][2])
            ELSE 0]]

\* nearest_neighbor_tsp as one call, for a matrix that holds start_idx.
RECURSIVE NNLoop(_, _, _, _, _)
NNLoop(dm, start, r, unv, cur) ==
    IF unv = {} THEN Append(r, start)
    ELSE LET nearest == NearestUnvisited(dm, cur, unv) IN
         NNLoop(dm, start, Append(r, nearest), unv \ {nearest}, nearest)

nearest_neighbor_tsp(dm, start) ==
    NNLoop(dm, start, <<start>>, Indices(MatrixLen(dm)) \ {start}, start)

\* two_opt_improvement as one call: the for loop from pass `it` on.
RECURSIVE TwoOptLoop(_, _, _, _, _)
TwoOptLoop(r, dm, best, it, maxit) ==
    IF it \notin Range(0, maxit) THEN r
    ELSE LET p == FirstImproving(r, dm, best) IN
         IF p = NoPair THEN r
         ELSE LET new_route == TwoOptSwap(r, p[1], p[2]) IN
              TwoOptLoop(new_route, dm, calculate_route_distance(new_route, dm),
                         it + 1, maxit)

two_opt_improvement(r, dm, maxit) ==
    TwoOptLoop(r, dm, calculate_route_distance(r, dm), 0, maxit)

\* ----------------------------------------------------- select_optimal_depot
RECURSIVE SumDistances(_, _, _)
SumDistances(depot, day_data, k) ==
    IF k > Len(day_data) THEN 0
    ELSE calculate_distance(depot.Latitude, depot.Longitude,
                            day_data[k].Latitude, day_data[k].Longitude)
         + SumDistances(depot, day_data, k + 1)

\* float('inf') and a total: compared by <.
Infinity == [inf |-> TRUE, v |-> 0]
Finite(x) == [inf |-> FALSE, v |-> x]
\* Mutant of LessThan: <= lets a later depot with an equal total win.
LessOrEqual(x, m) == m.inf \/ x <= m.v
LessThan(x, m) == m.inf \/ x < m.v

\* The loop over depots.iterrows() from row idx on (idx is the row's label,
\* its position in a frame read by read_csv); returns best_depot_idx.
RECURSIVE DepotLoop(_, _, _, _, _)
DepotLoop(day_data, deps, idx, best_depot_idx, min_total_distance) ==
    IF idx \notin Range(0, Len(deps)) THEN best_depot_idx
    ELSE LET total_dist == SumDistances(deps[idx + 1], day_data, 1) IN
         IF LessThan(total_dist, min_total_distance)
         THEN DepotLoop(day_data, deps, idx + 1, idx, Finite(total_dist))
         ELSE DepotLoop(day_data, deps, idx + 1, best_depot_idx, min_total_distance)

\* <<best_depot_idx, depots.iloc[best_depot_idx].to_dict()>>
select_optimal_depot(day_data, deps) ==
    LET best_depot_idx == DepotLoop(day_data, deps, 0, 0, Infinity) IN
    <<best_depot_idx, deps[best_depot_idx + 1]>>

\* ---------------------------------------------------------- pandas helpers
\* weekly_data['Day'].unique(): the days in order of first appearance.
RECURSIVE UniqueDays(_, _, _)
UniqueDays(rows, k, seen) ==
    IF k > Len(rows) THEN <<>>
    ELSE IF rows[k].Day \in seen THEN UniqueDays(rows, k + 1, seen)
    ELSE <<rows[k].Day>> \o UniqueDays(rows, k + 1, seen \cup {rows[k].Day})

\* weekly_data[weekly_data['Day'] == day]
RECURSIVE RowsOfDay(_, _, _)
RowsOfDay(rows, day, k) ==
    IF k > Len(rows) THEN <<>>
    ELSE IF rows[k].Day = day THEN <<rows[k]>> \o RowsOfDay(rows, day, k + 1)
    ELSE RowsOfDay(rows, day, k + 1)

\* Mutant of DayData: the filter on the day is lost, every row is taken.
AllRows(rows, day) == rows

DayData(rows, day) == RowsOfDay(rows, day, 1)

\* A float that may be NaN.
NaN == [nan |-> TRUE, v |-> 0]
Num(x) == [nan |-> FALSE, v |-> x]
Times(x, y) == IF x.nan \/ y.nan THEN NaN ELSE Num(x.v * y.v)

\* The price rows that match a material, in table order.
RECURSIVE Matches(_, _, _)
Matches(price_rows, material, k) ==
    IF k > Len(price_rows) THEN <<>>
    ELSE IF price_rows[k].Material = material
         THEN <<price_rows[k]>> \o Matches(price_rows, material, k + 1)
         ELSE Matches(price_rows, material, k + 1)

\* day_data.merge(prices, on='Material', how='left'): each row once per
\* matching price row, and once with a NaN price when none matches.  Only the
\* two columns the revenue reads are kept.
RECURSIVE MergeLeft(_, _, _)
MergeLeft(day_data, price_rows, k) ==
    IF k > Len(day_data) THEN <<>>
    ELSE LET m == Matches(price_rows, day_data[k].Material, 1)
             w == Num(day_data[k].Estimated_Weight_kg)
         IN (IF m = <<>>
             THEN <<[Estimated_Weight_kg |-> w, Price_per_kg |-> NaN]>>
             ELSE [x \in 1 .. Len(m) |->
                     [Estimated_Weight_kg |-> w, Price_per_kg |-> Num(m[x].Price_per_kg)]])
            \o MergeLeft(day_data, price_rows, k + 1)

\* Series.sum(): NaN entries are skipped (skipna), an empty sum is 0.
RECURSIVE SumSkipNa(_, _)
SumSkipNa(series, k) ==
    IF k > Len(series) THEN 0
    ELSE (IF series[k].nan THEN 0 ELSE series[k].v) + SumSkipNa(series, k + 1)

\* (merged['Estimated_Weight_kg'] * merged['Price_per_kg']).sum()
TotalRevenue(day_data, price_rows) ==
    LET merged == MergeLeft(day_data, price_rows, 1) IN
    SumSkipNa([k \in 1 .. Len(merged) |->
                  Times(merged[k].Estimated_Weight_kg, merged[k].Price_per_kg)], 1)

\* day_data['Estimated_Weight_kg'].sum()
TotalWeight(day_data) ==
    SumSkipNa([k \in 1 .. Len(day_data) |-> Num(day_data[k].Estimated_Weight_kg)], 1)

\* a / b as the exact quotient num/den; den = 0 is the division by zero.
TrueDiv(a, b) == [num |-> a, den |-> b]
Zero == [num |-> 0, den |-> 1]

\* Mutant of Efficiency: the division without its guard.
EfficiencyUnguarded(total_revenue, total_distance) ==
    TrueDiv(total_revenue, total_distance)

\* total_revenue / total_distance if total_distance > 0 else 0
Efficiency(total_revenue, total_distance) ==
    IF total_distance > 0 THEN TrueDiv(total_revenue, total_distance) ELSE Zero

\* [depot] + the rows' coordinates
Locations(depot_info, day_data) ==
    <<<<depot_info.Latitude, depot_info.Longitude>>>>
        \o [k \in 1 .. Len(day_data) |-> <<day_data[k].Latitude, day_data[k].Longitude>>]

\* Lines 170-203: the body of the loop for one day's rows.  The call of
\* two_opt_improvement names no max_iterations: it runs with the default.
DayResult(day_data, deps, price_rows) ==
    LET depot_info == select_optimal_depot(day_data, deps)[2]
        locations == Locations(depot_info, day_data)
        dist_matrix == create_distance_matrix(locations)
        initial_route == nearest_neighbor_tsp(dist_matrix, 0)
        optimized_route ==
            two_opt_improvement(initial_route, dist_matrix, DefaultMaxIterations)
        total_distance == calculate_route_distance(optimized_route, dist_matrix)
        total_revenue == TotalRevenue(day_data, price_rows)
    IN [route |-> optimized_route,
        locations |-> locations,
        distance |-> total_distance,
        weight |-> TotalWeight(day_data),
        revenue |-> total_revenue,
        depot |-> depot_info,
        collections |-> day_data,
        efficiency |-> Efficiency(total_revenue, total_distance)]

\* ------------------------------------------------------ the planner's inputs
Days == {"Mon", "Tue"}
StopLongitudes == {0 - 1, 1, 4}
DepotLongitudes == {0, 4}
\* The kinds of load a row carries.
Loads == {[Material |-> "Paper", Estimated_Weight_kg |-> 2],
          [Material |-> "Glass", Estimated_Weight_kg |-> 3]}
CollectionRows ==
    {[Day |-> d, Latitude |-> 0, Longitude |-> x,
      Material |-> l.Material, Estimated_Weight_kg |-> l.Estimated_Weight_kg] :
        d \in Days, x \in StopLongitudes, l \in Loads}
DepotRows == {[Depot |-> x, Latitude |-> 0, Longitude |-> x] : x \in DepotLongitudes}
\* Price tables: Paper is always priced, Glass in one of the two.
PriceTables ==
    {<<[Material |-> "Paper", Price_per_kg |-> 2]>>,
     <<[Material |-> "Paper", Price_per_kg |-> 2], [Material |-> "Glass", Price_per_kg |-> 1]>>}

SeqsUpTo(S, n) == UNION {[1 .. k -> S] : k \in 0 .. n}

TourIdle ==
    /\ pc = "idle"
    /\ distance_matrix = <<>>
    /\ start_idx = 0
    /\ unvisited = {}
    /\ current = 0
    /\ route = <<>>
    /\ route_in = <<>>
    /\ max_iterations = 0
    /\ iteration = 0
    /\ best_route = <<>>
    /\ best_distance = 0

\* main() has loaded the three frames (a week with at least one row, line
\* 336) and read the sidebar; RouteOptimizer() has run __init__.
PlanInitWith(max_rows) ==
    /\ TourIdle
    /\ ppc = "main"
    /\ weekly_data \in SeqsUpTo(CollectionRows, max_rows) \ {<<>>}
    /\ depots \in SeqsUpTo(DepotRows, MaxDepots) \ {<<>>}
    /\ prices \in PriceTables
    /\ optimization_level \in DOMAIN OPTIMIZATION_LEVELS
    /\ days_left = <<>>
    /\ results = <<>>
    /\ self_fields = [routes |-> <<>>, total_distance |-> 0, total_value |-> 0]
    /\ issued = {}

PlanInit == PlanInitWith(MaxRows)
LongPlanInit == PlanInitWith(MaxLongRows)

\* Lines 342, 162-164: the call; results = {} and the loop's iterator.
OptimizeCall ==
    /\ ppc = "main"
    /\ results' = <<>>
    /\ days_left' = UniqueDays(weekly_data, 1, {})
    /\ ppc' = "loop"
    /\ UNCHANGED <<weekly_data, depots, prices, optimization_level, self_fields, issued>>
    /\ UNCHANGED tourVars

\* Lines 164-203: one pass of the loop over the days.
PlanDay ==
    /\ ppc = "loop"
    /\ days_left # <<>>
    /\ LET day == Head(days_left)
           day_data == DayData(weekly_data, day)
       IN IF Len(day_data) = 0
          THEN UNCHANGED results
          ELSE results' =
                 [d \in DOMAIN results \cup {day} |->
                     IF d = day
                     THEN DayResult(day_data, depots, prices)
                     ELSE results[d]]
    /\ days_left' = Tail(days_left)
    /\ UNCHANGED <<ppc, weekly_data, depots, prices, optimization_level, self_fields, issued>>
    /\ UNCHANGED tourVars

\* Line 205: return results.
OptimizeReturn ==
    /\ ppc = "loop"
    /\ days_left = <<>>
    /\ ppc' = "returned"
    /\ UNCHANGED <<weekly_data, depots, prices, optimization_level, days_left,
                   results, self_fields, issued>>
    /\ UNCHANGED tourVars

PlanNext ==
    \/ OptimizeCall
    \/ PlanDay
    \/ OptimizeReturn

PlanSpec == PlanInit /\ [][PlanNext]_vars

\* The planner on weeks of up to MaxLongRows rows.
LongPlanSpec == LongPlanInit /\ [][PlanNext]_vars

\* ------------------------------------------------------------ properties
\* t is a closed tour over n locations: length n+1, index 0 first and last,
\* every index 1..n-1 exactly once.
IsClosedTour(t, n) ==
    /\ Len(t) = n + 1
    /\ t[1] = 0
    /\ t[n + 1] = 0
    /\ \A k \in 1 .. (n - 1) : Cardinality({p \in 1 .. Len(t) : t[p] = k}) = 1

\* The pairs the nested scan visits, 1 <= i < j <= len-2, and their order.
ScanPairs(r) ==
    {p \in (1 .. (Len(r) - 2)) \X (1 .. (Len(r) - 2)) : p[1] < p[2]}
ScannedBefore(p, q) == p[1] < q[1] \/ (p[1] = q[1] /\ p[2] < q[2])
Improves(r, dm, p) ==
    calculate_route_distance(TwoOptSwap(r, p[1], p[2]), dm)
        < calculate_route_distance(r, dm)
LocallyOptimal(r, dm) == \A p \in ScanPairs(r) : ~Improves(r, dm, p)

\* C1: for N >= 1 locations and start index 0, the tour nearest_neighbor_tsp
\* returns, and every incumbent and the result of two_opt_improvement, has
\* length N+1, starts and ends at the depot index 0 and holds every index
\* 1..N-1 exactly once.
C1_ToursAreClosedTours ==
    LET n == MatrixLen(distance_matrix) IN
    n >= 1 =>
        /\ pc = "nn_done" => IsClosedTour(route, n)
        /\ pc \in {"two_opt", "done"} =>
               IsClosedTour(best_route, n) /\ IsClosedTour(route, n)

\* A nearest-neighbour tour over four locations that 2-opt has changed.
C1_Witness ==
    /\ pc = "done"
    /\ MatrixLen(distance_matrix) = 4
    /\ current # start_idx
    /\ iteration >= 1
    /\ best_route # route_in

\* C2: the tour two_opt_improvement returns is never longer than the tour it
\* was given, whatever the matrix and the budget.
C2_NeverWorseThanInput ==
    pc \in {"two_opt", "done"} =>
        calculate_route_distance(best_route, distance_matrix)
            <= calculate_route_distance(route_in, distance_matrix)

\* A returned tour strictly shorter than the nearest-neighbour tour given.
C2_Witness ==
    /\ pc = "done"
    /\ current # start_idx
    /\ calculate_route_distance(best_route, distance_matrix)
           < calculate_route_distance(route_in, distance_matrix)

\* C6: nearest_neighbor_tsp on an empty matrix returns the empty tour and
\* raises nothing.
C6_EmptyMatrixGivesEmptyTour ==
    (MatrixLen(distance_matrix) = 0 /\ pc # "start") =>
        (pc = "nn_done" /\ route = <<>>)

\* C7: a negative max_iterations is rejected: two_opt_improvement returns a
\* tour only for a budget >= 0.
C7_NegativeBudgetReturnsNoTour ==
    pc = "done" => max_iterations >= 0

\* The step condition of C10: with a budget B >= 0, every pass of two_opt_improvement's loop that
\* changes the tour applies the reversal of the first pair in scan order that
\* strictly shortens the incumbent, at most B of them; the loop ends at the
\* first scan without such a pair or after B reversals; the result is the
\* input for B = 0 and is locally optimal when fewer than B reversals ran.
C10_StepOK ==
    (pc = "two_opt" /\ max_iterations >= 0) =>
        /\ route = best_route
        /\ iteration <= max_iterations
        /\ route' # route =>
              /\ \E p \in ScanPairs(route) :
                    /\ Improves(route, distance_matrix, p)
                    /\ \A q \in ScanPairs(route) :
                          ScannedBefore(q, p) => ~Improves(route, distance_matrix, q)
                    /\ route' = TwoOptSwap(route, p[1], p[2])
              /\ best_route' = route'
              /\ iteration' = iteration + 1
              /\ iteration' <= max_iterations
              /\ pc' = "two_opt"
        /\ route' = route =>
              /\ pc' = "done"
              /\ best_route' = best_route
              /\ iteration' = iteration
              /\ \/ iteration = max_iterations
                 \/ LocallyOptimal(route, distance_matrix)
        /\ pc' = "done" =>
              /\ max_iterations = 0 => best_route' = route_in
              /\ iteration' < max_iterations =>
                    LocallyOptimal(best_route', distance_matrix)
        /\ (iteration < max_iterations /\ ~LocallyOptimal(route, distance_matrix)) =>
              route' # route

\* C10: every step of two_opt_improvement follows the first-improvement rule
\* stated by C10_StepOK: first improving pair in scan order, at most B
\* reversals, stop at the first scan without one or when the budget is spent.
C10_FirstImprovementRule == [][C10_StepOK]_vars

\* One reversal, then a full scan without an improving pair, budget to spare.
C10_Witness ==
    /\ pc = "done"
    /\ iteration = 1
    /\ max_iterations = 2
    /\ best_route # route_in
    /\ LocallyOptimal(best_route, distance_matrix)

\* The budget ran out on a tour a further reversal would shorten.
C10_BudgetExhausted ==
    /\ pc = "done"
    /\ iteration = max_iterations
    /\ iteration >= 1
    /\ ~LocallyOptimal(best_route, distance_matrix)


\* ---------------------------------------------------- the planner's claims
\* The index of the first depot row whose summed distance to rows is minimal.
FirstMinimalDepot(rows, deps) ==
    CHOOSE k \in Range(0, Len(deps)) :
        /\ \A m \in Range(0, Len(deps)) :
              SumDistances(deps[k + 1], rows, 1) <= SumDistances(deps[m + 1], rows, 1)
        /\ \A m \in Range(0, k) :
              SumDistances(deps[m + 1], rows, 1) > SumDistances(deps[k + 1], rows, 1)

\* The rows of one day, in the week's order.
RowsOn(d) == SelectSeq(weekly_data, LAMBDA row : row.Day = d)

Priced(material) == \E k \in 1 .. Len(prices) : prices[k].Material = material
PriceOf(material) ==
    (CHOOSE k \in 1 .. Len(prices) : prices[k].Material = material)

\* The revenue of the rows that have a price: the sum of weight x price.
RECURSIVE PricedRevenue(_, _)
PricedRevenue(rows, k) ==
    IF k > Len(rows) THEN 0
    ELSE (IF Priced(rows[k].Material)
          THEN rows[k].Estimated_Weight_kg * prices[PriceOf(rows[k].Material)].Price_per_kg
          ELSE 0)
         + PricedRevenue(rows, k + 1)

\* C3: each day's tour is what 2-opt yields from the nearest-neighbour tour
\* under the budget of the selected level (Basic 0, so the nearest-neighbour
\* tour itself; Advanced 1000; Premium 5000).
C3_BudgetFollowsLevel ==
    \A d \in DOMAIN results :
        LET dm == create_distance_matrix(results[d].locations) IN
        results[d].route =
            two_opt_improvement(nearest_neighbor_tsp(dm, 0), dm,
                                OPTIMIZATION_LEVELS[optimization_level])

\* C4: for a non-empty depot list, select_optimal_depot returns the depot
\* with the least summed distance to the day's points, the first such depot
\* in candidate order, and that depot is the one of the day's result.
C4_FirstMinimalDepotIsSelected ==
    \A d \in DOMAIN results :
        LET k == FirstMinimalDepot(RowsOn(d), depots) IN
        /\ select_optimal_depot(RowsOn(d), depots) = <<k, depots[k + 1]>>
        /\ results[d].depot = depots[k + 1]

\* Two different depots tie on a planned day, and the first was taken.
C4_Witness ==
    \E d \in DOMAIN results :
        /\ Len(depots) = 2
        /\ depots[1] # depots[2]
        /\ SumDistances(depots[1], RowsOn(d), 1) = SumDistances(depots[2], RowsOn(d), 1)
        /\ results[d].depot = depots[1]

\* The second depot is strictly nearer on a planned day, and was taken.
C4_SecondDepotTaken ==
    \E d \in DOMAIN results :
        /\ Len(depots) = 2
        /\ SumDistances(depots[2], RowsOn(d), 1) < SumDistances(depots[1], RowsOn(d), 1)
        /\ results[d].depot = depots[2]

\* The half of C5 about the revenue: a row without a price adds 0, every
\* other row its weight x price.
C5_UnpricedRowAddsZero ==
    \A d \in DOMAIN results : results[d].revenue = PricedRevenue(RowsOn(d), 1)

\* C5: a row whose material has no price adds 0 to the day's revenue, the
\* other rows add weight x price, and a warning that names the row reaches
\* the caller with the result.
C5_UnpricedRowIsReported ==
    \A d \in DOMAIN results :
        /\ results[d].revenue = PricedRevenue(RowsOn(d), 1)
        /\ \A k \in 1 .. Len(RowsOn(d)) :
              ~Priced(RowsOn(d)[k].Material) =>
                  \E w \in issued : w.day = d /\ w.row = k

\* C8: a day's efficiency is revenue / distance when the tour's distance is
\* positive and exactly 0 when it is 0; no division by zero happens.
C8_EfficiencyIsGuarded ==
    \A d \in DOMAIN results :
        LET r == results[d] IN
        /\ r.efficiency.den # 0
        /\ r.distance > 0 =>
              r.efficiency.num * r.distance = r.revenue * r.efficiency.den
        /\ r.distance = 0 => r.efficiency = Zero

\* A day whose stops all lie at the depot: distance 0 with revenue to divide.
C8_Witness ==
    \E d \in DOMAIN results :
        /\ results[d].distance = 0
        /\ results[d].revenue > 0
        /\ results[d].efficiency = Zero

\* C9: the result stored under a day is the result of planning that day's
\* rows alone with the depots and the prices, whatever other days the week
\* holds and wherever their rows stand; a pass leaves the results of the
\* other days and the optimizer's own fields as they were.
C9_DayPassesAreIndependent ==
    /\ \A d \in DOMAIN results : results[d] = DayResult(RowsOn(d), depots, prices)
    /\ self_fields = [routes |-> <<>>, total_distance |-> 0, total_value |-> 0]

\* A week of two days, both planned, with different results.
C9_Witness ==
    /\ ppc = "returned"
    /\ weekly_data[1].Day # weekly_data[Len(weekly_data)].Day
    /\ DOMAIN results = {weekly_data[1].Day, weekly_data[Len(weekly_data)].Day}
    /\ results[weekly_data[1].Day] # results[weekly_data[Len(weekly_data)].Day]

\* The step condition of C11: a pass of nearest_neighbor_tsp's loop appends
\* an unvisited index, none of the unvisited is nearer to the current
\* position, and among the equally near it is the lowest; the start index
\* closes the tour only once nothing is left unvisited.
C11_StepOK ==
    pc = "nn_loop" =>
        /\ current = route[Len(route)]
        /\ unvisited # {} =>
              /\ pc' = "nn_loop"
              /\ \E x \in unvisited :
                    /\ route' = Append(route, x)
                    /\ \A y \in unvisited :
                          distance_matrix[current][x] <= distance_matrix[current][y]
                    /\ \A y \in unvisited :
                          distance_matrix[current][y] = distance_matrix[current][x]
                              => x <= y
                    /\ unvisited' = unvisited \ {x}
                    /\ current' = x
        /\ unvisited = {} =>
              /\ pc' = "nn_done"
              /\ route' = Append(route, start_idx)
        /\ pc' = "nn_done" => unvisited = {}

\* C11: every step of nearest_neighbor_tsp is the greedy one of C11_StepOK
\* (nearest unvisited index, lowest index among the equidistant, the start
\* appended last), so a matrix and a start index fix the tour.
C11_GreedyLowestIndex == [][C11_StepOK]_vars

\* A finished tour over four locations whose first step broke a tie between
\* two equidistant indices and whose second step took a higher index because
\* a lower one was farther.
C11_Witness ==
    /\ pc = "nn_done"
    /\ current # start_idx
    /\ Len(route) = 5
    /\ \E y \in Indices(4) \ {start_idx, route[2]} :
          distance_matrix[start_idx][y] = distance_matrix[start_idx][route[2]]
    /\ \E z \in Indices(4) \ {start_idx, route[2], route[3]} :
          /\ z < route[3]
          /\ distance_matrix[route[2]][z] > distance_matrix[route[2]][route[3]]

\* The stepwise algorithms and the single calls the planner makes agree.
StepwiseAgreesWithCall ==
    /\ (pc = "nn_done" /\ current # start_idx) =>
           route = nearest_neighbor_tsp(distance_matrix, start_idx)
    /\ pc = "done" =>
           best_route = two_opt_improvement(route_in, distance_matrix, max_iterations)

=============================================================================
